---- MODULE Spec2Model ----
(***************************************************************************)
(* A model of mage-module-staticdata (src/src/index.ts): the StaticData    *)
(* decorator and the per-class _staticDataMeta registry, extractMetaData,  *)
(* walk / parseAttribute, and AbstractStaticDataModule (setup, import).    *)
(***************************************************************************)
EXTENDS Integers, Sequences, FiniteSets, TLC

VARIABLES
  staticDataMeta,  \* class -> its own static _staticDataMeta slot
  log,             \* history: the decorator applications so far, in order
  exTarget,        \* extractMetaData: the class of the outermost call
  exStack,         \* extractMetaData: the call stack, innermost frame last
  exResult,        \* extractMetaData: the value returned by the outermost call
  exStatus,        \* extractMetaData: "idle", "running", "done" or the error thrown
  build,           \* the compile target of the build ("ES5" or "ES2015")
  walkData,        \* walk: the raw tree handed to the outermost call
  walkTarget,      \* walk: the class handed to the outermost call
  heap,            \* instances, promises, suspended parseAttribute calls, validations
  walkResult,      \* what the caller of walk observed
  StaticDataClass, \* AbstractStaticDataModule.StaticDataClass
  staticData,      \* AbstractStaticDataModule.staticData (an instance of the heap)
  dumpFile,        \* content of the file at _dumpLocation
  modPc,           \* position of the module operation in progress
  modData,         \* argument of the import in progress
  modOutcome       \* history: how the last operation ended, staticData when it
                   \* began, and the number of imports begun

regVars  == <<staticDataMeta, log>>
exVars   == <<exTarget, exStack, exResult, exStatus>>
walkVars == <<build, walkData, walkTarget, heap, walkResult>>
modVars  == <<StaticDataClass, staticData, dumpFile, modPc, modData, modOutcome>>
vars     == <<staticDataMeta, log, exTarget, exStack, exResult, exStatus,
              build, walkData, walkTarget, heap, walkResult,
              StaticDataClass, staticData, dumpFile, modPc, modData, modOutcome>>

(***************************************************************************)
(* Bounds of the model.                                                    *)
(***************************************************************************)
MaxDecorations == 2   \* decorator applications in one behaviour
MaxSchemaFields == 2  \* decorator applications behind a schema handed to extractMetaData
MaxStack == 4         \* call-stack depth at which the engine throws RangeError
MaxImports == 2       \* module operations in one behaviour

(***************************************************************************)
(* ValueType (const enum).                                                 *)
(***************************************************************************)
Scalar == 0
Array == 1
Object == 2

Undefined == "undefined"

\* The classes of the model.  Sub extends Item; Plain is never annotated.
Classes == {"Item", "Tag", "Sub", "Plain"}
Parent(c) == IF c = "Sub" THEN "Item" ELSE Undefined

\* Reflect.getMetadata('design:type', target, key): the declared type of a field.
DesignType(key) ==
  CASE key = "id"    -> "Number"
    [] key = "label" -> "String"
    [] key = "tags"  -> "Array"
    [] key = "main"  -> "Tag"
    [] key = "owner" -> "Item"

\* The field annotations a class body may carry: <<key, remoteName, childClass>>.
Annotations ==
  { <<"id", "ID", Undefined>>, <<"id", "Ident", "opt">>,
    <<"tags", "Tags", "Tag">>, <<"main", "Main", "Tag">>,
    <<"owner", "Owner", "Item">>, <<"label", "Label", Undefined>> }
AnnotatedClasses == Classes \ {"Plain"}

(***************************************************************************)
(* The registry: a JS object, i.e. its own keys in insertion order.        *)
(***************************************************************************)
NoMeta == [has |-> FALSE, entries |-> <<>>]
NewMeta == [has |-> TRUE, entries |-> <<>>]

KeysOf(entries) == [i \in 1..Len(entries) |-> entries[i].key]
HasKey(entries, key) == \E i \in 1..Len(entries) : entries[i].key = key
Get(entries, key) ==
  LET i == CHOOSE j \in 1..Len(entries) : entries[j].key = key
  IN entries[i].val
\* obj[key] = val : an existing key keeps its place, a new one goes last.
Put(entries, key, val) ==
  IF HasKey(entries, key)
  THEN [i \in 1..Len(entries) |->
          IF entries[i].key = key THEN [key |-> key, val |-> val] ELSE entries[i]]
  ELSE Append(entries, [key |-> key, val |-> val])
\* The contents of a JS object, whatever the order of its keys.
Contents(entries) ==
  [k \in {entries[i].key : i \in 1..Len(entries)} |-> Get(entries, k)]

\* The class whose own slot Target._staticDataMeta resolves to (static members
\* are found along the constructor's prototype chain), or Undefined.
RECURSIVE Holder(_, _)
Holder(sm, c) ==
  IF c \notin Classes THEN Undefined
  ELSE IF sm[c].has THEN c
  ELSE Holder(sm, Parent(c))

\* Target._staticDataMeta
MetaOf(sm, c) == IF Holder(sm, c) = Undefined THEN NoMeta ELSE sm[Holder(sm, c)]

computeMetadata(key, remoteName, opts) ==
  LET Info == DesignType(key)
      type == IF Info \in {"String", "Number", "Boolean"} THEN Scalar
              ELSE IF Info = "Array" THEN Array
              ELSE Object
  IN [remoteName |-> remoteName, opts |-> opts, type |-> type]

\* A slip of StaticData: the registry is replaced instead of extended.
StaticDataFresh(sm, c, key, remoteName, childClass) ==
  [sm EXCEPT ![c] = [has |-> TRUE,
                     entries |-> <<[key |-> key,
                                    val |-> computeMetadata(key, remoteName, childClass)]>>]]

\* StaticData(remoteName, childClass)(target, key), target.constructor being c.
StaticData(sm, c, key, remoteName, childClass) ==
  LET meta == computeMetadata(key, remoteName, childClass)
      h == Holder(sm, c)
  IN IF h = Undefined
     THEN [sm EXCEPT ![c] = [NewMeta EXCEPT !.entries = Put(<<>>, key, meta)]]
     ELSE [sm EXCEPT ![h].entries = Put(sm[h].entries, key, meta)]

(***************************************************************************)
(* Specification Spec: class definitions run their field decorators.       *)
(***************************************************************************)
IdleEx == /\ exTarget = Undefined /\ exStack = <<>>
          /\ exResult = <<>> /\ exStatus = "idle"
EmptyHeap == [insts |-> <<>>, proms |-> <<>>, tasks |-> <<>>, valids |-> <<>>]
NoResult == [status |-> "none", inst |-> 0, err |-> ""]
IdleWalk == /\ build = "ES2015" /\ walkData = [t |-> "undef"]
            /\ walkTarget = Undefined /\ heap = EmptyHeap /\ walkResult = NoResult
NoOutcome == [last |-> "none", before |-> 0, imports |-> 0]
IdleMod == /\ StaticDataClass = Undefined /\ staticData = 0
           /\ dumpFile = [t |-> "undef"] /\ modPc = "init"
           /\ modData = [t |-> "undef"] /\ modOutcome = NoOutcome

Init ==
  /\ staticDataMeta = [c \in Classes |-> NoMeta]
  /\ log = <<>>
  /\ IdleEx /\ IdleWalk /\ IdleMod

Decorate(c, a) ==
  /\ Len(log) < MaxDecorations
  /\ staticDataMeta' = StaticData(staticDataMeta, c, a[1], a[2], a[3])
  /\ log' = Append(log, [cls |-> c, key |-> a[1], remoteName |-> a[2], opts |-> a[3]])
  /\ UNCHANGED <<exVars, walkVars, modVars>>

Next == \E c \in AnnotatedClasses, a \in Annotations : Decorate(c, a)

Spec == Init /\ [][Next]_vars

(***************************************************************************)
(* Claims about the registry, checked under Spec.                          *)
(***************************************************************************)
RegistryAfter(sm, c, a) == Contents(MetaOf(StaticData(sm, c, a[1], a[2], a[3]), c).entries)
RegistryAfter2(sm, c, a, b) ==
  Contents(MetaOf(StaticData(StaticData(sm, c, a[1], a[2], a[3]), c, b[1], b[2], b[3]), c).entries)
Override(f, k, v) == [x \in DOMAIN f \cup {k} |-> IF x = k THEN v ELSE f[x]]

\* C8: from every reachable registry state and for every class, registering two
\* descriptors with distinct local names in either order yields the same registry
\* contents, and registering a second descriptor under an already registered
\* name leaves the registry holding the later descriptor, all other entries
\* being unchanged.
C8_RegistryDeterminism ==
  \A c \in AnnotatedClasses, a \in Annotations, b \in Annotations :
    /\ a[1] # b[1] =>
         RegistryAfter2(staticDataMeta, c, a, b) = RegistryAfter2(staticDataMeta, c, b, a)
    /\ a[1] = b[1] =>
         RegistryAfter2(staticDataMeta, c, a, b) =
           Override(Contents(MetaOf(staticDataMeta, c).entries), b[1],
                    computeMetadata(b[1], b[2], b[3]))
    /\ RegistryAfter(staticDataMeta, c, a) =
         Override(Contents(MetaOf(staticDataMeta, c).entries), a[1],
                  computeMetadata(a[1], a[2], a[3]))

\* C8 witness: a name was registered twice on one class, with different
\* descriptors, and the registry of that class holds the later one only.
C8_Witness ==
  \E i \in 1..Len(log), j \in 1..Len(log) :
    /\ i < j /\ log[i].cls = log[j].cls /\ log[i].key = log[j].key
    /\ log[i].remoteName # log[j].remoteName
    /\ LET reg == MetaOf(staticDataMeta, log[i].cls).entries
       IN /\ Len(reg) = 1
          /\ Get(reg, log[j].key) =
               computeMetadata(log[j].key, log[j].remoteName, log[j].opts)

\* C10: a registration on class c leaves c with a registry of its own and
\* leaves the registry of every other class unchanged.
C10_OnlyOwnRegistryChanges ==
  [][\A c \in AnnotatedClasses, a \in Annotations :
       Decorate(c, a) =>
         /\ staticDataMeta'[c].has
         /\ \A d \in Classes \ {c} : staticDataMeta'[d] = staticDataMeta[d]]_vars

(***************************************************************************)
(* extractMetaData, one call-stack frame per invocation.                   *)
(***************************************************************************)
EmptyDesc == [k \in {} |-> 0]

\* meta: opts && opts._staticDataMeta ? extractMetaData(opts) : opts
IsSchemaClass(sm, opts) == opts \in Classes /\ MetaOf(sm, opts).has
OptsMeta(opts) == [isSchema |-> FALSE, opts |-> opts, schema |-> <<>>]
NestedMeta(ret) == [isSchema |-> TRUE, opts |-> Undefined, schema |-> ret]

\* A slip of the entry literal: the local name is emitted as the remote name.
FieldEntryLocalName(key, m, metaVal) == [name |-> key, type |-> m.type, meta |-> metaVal]

\* { name, type, meta } of ret[key]
FieldEntry(key, m, metaVal) == [name |-> m.remoteName, type |-> m.type, meta |-> metaVal]

\* const meta = target._staticDataMeta; const keys = Object.keys(meta); const ret = {}
NewFrame(sm, c) ==
  [cls |-> c, keys |-> KeysOf(MetaOf(sm, c).entries), i |-> 1, ret |-> <<>>]

Top == exStack[Len(exStack)]
TopKey == Top.keys[Top.i]
TopFieldMeta == Get(MetaOf(staticDataMeta, Top.cls).entries, TopKey)
Pop(stack) == SubSeq(stack, 1, Len(stack) - 1)
SetTop(stack, f) == [stack EXCEPT ![Len(stack)] = f]

\* The outermost call, extractMetaData(c); Object.keys(undefined) throws.
ExtractCall(c) ==
  /\ exStatus = "idle"
  /\ exTarget' = c
  /\ IF MetaOf(staticDataMeta, c).has
     THEN /\ exStack' = <<NewFrame(staticDataMeta, c)>>
          /\ exStatus' = "running"
     ELSE /\ exStack' = <<>>
          /\ exStatus' = "TypeError"
  /\ UNCHANGED <<exResult, regVars, walkVars, modVars>>

\* One turn of the loop for a key whose opts is no schema class.
ExtractField ==
  /\ exStatus = "running"
  /\ Top.i <= Len(Top.keys)
  /\ ~IsSchemaClass(staticDataMeta, TopFieldMeta.opts)
  /\ exStack' = SetTop(exStack,
       [Top EXCEPT !.ret = Put(Top.ret, TopKey,
                               FieldEntry(TopKey, TopFieldMeta, OptsMeta(TopFieldMeta.opts))),
                   !.i = Top.i + 1])
  /\ UNCHANGED <<exTarget, exResult, exStatus, regVars, walkVars, modVars>>

\* The recursive call extractMetaData(opts) for a key whose opts is a schema class.
ExtractNested ==
  /\ exStatus = "running"
  /\ Top.i <= Len(Top.keys)
  /\ IsSchemaClass(staticDataMeta, TopFieldMeta.opts)
  /\ Len(exStack) < MaxStack
  /\ exStack' = Append(exStack, NewFrame(staticDataMeta, TopFieldMeta.opts))
  /\ UNCHANGED <<exTarget, exResult, exStatus, regVars, walkVars, modVars>>

\* The recursive call when the engine's call stack is exhausted.
ExtractOverflow ==
  /\ exStatus = "running"
  /\ Top.i <= Len(Top.keys)
  /\ IsSchemaClass(staticDataMeta, TopFieldMeta.opts)
  /\ Len(exStack) >= MaxStack
  /\ exStatus' = "RangeError"
  /\ UNCHANGED <<exTarget, exStack, exResult, regVars, walkVars, modVars>>

\* return ret, to the caller's ret[key] = {name, type, meta: <returned>}.
ExtractReturn ==
  /\ exStatus = "running"
  /\ Top.i > Len(Top.keys)
  /\ IF Len(exStack) = 1
     THEN /\ exResult' = Top.ret
          /\ exStack' = <<>>
          /\ exStatus' = "done"
     ELSE LET caller == exStack[Len(exStack) - 1]
              key == caller.keys[caller.i]
              m == Get(MetaOf(staticDataMeta, caller.cls).entries, key)
          IN /\ exStack' = SetTop(Pop(exStack),
                  [caller EXCEPT !.ret = Put(caller.ret, key,
                                             FieldEntry(key, m, NestedMeta(Top.ret))),
                                 !.i = caller.i + 1])
             /\ UNCHANGED <<exResult, exStatus>>
  /\ UNCHANGED <<exTarget, regVars, walkVars, modVars>>

\* The registries that at most n decorator applications leave behind.
RECURSIVE SchemasUpTo(_)
SchemasUpTo(n) ==
  IF n = 0 THEN {[c \in Classes |-> NoMeta]}
  ELSE LET prev == SchemasUpTo(n - 1)
       IN prev \cup { StaticData(sm, c, a[1], a[2], a[3]) :
                        sm \in prev, c \in AnnotatedClasses, a \in Annotations }

RECURSIVE Decorated(_, _)
Decorated(sm, decorations) ==
  IF decorations = <<>> THEN sm
  ELSE LET d == Head(decorations)
       IN Decorated(StaticData(sm, d[1], d[2][1], d[2][2], d[2][3]), Tail(decorations))

\* class Tag { @StaticData('Label') label: string }
\* class Item { @StaticData('ID') id: number; @StaticData('Tags', Tag) tags: Tag[] }
ItemTagSchema ==
  Decorated([c \in Classes |-> NoMeta],
            << <<"Tag", <<"label", "Label", Undefined>> >>,
               <<"Item", <<"id", "ID", Undefined>> >>,
               <<"Item", <<"tags", "Tags", "Tag">> >> >>)

ExtractInit ==
  /\ staticDataMeta \in SchemasUpTo(MaxSchemaFields) \cup {ItemTagSchema}
  /\ log = <<>>
  /\ IdleEx /\ IdleWalk /\ IdleMod

ExtractNext ==
  \/ \E c \in Classes : ExtractCall(c)
  \/ ExtractField
  \/ ExtractNested
  \/ ExtractOverflow
  \/ ExtractReturn

SpecExtract == ExtractInit /\ [][ExtractNext]_vars

(***************************************************************************)
(* Claims about extractMetaData, checked under SpecExtract.                *)
(***************************************************************************)
\* The schema classes a class names as the nested class of one of its fields.
NestedOf(sm, c) ==
  LET e == MetaOf(sm, c).entries
  IN { e[i].val.opts : i \in 1..Len(e) } \cap { d \in Classes : MetaOf(sm, d).has }
RECURSIVE ReachIn(_, _, _)
ReachIn(sm, from, n) ==
  IF n = 0 THEN from
  ELSE ReachIn(sm, from \cup UNION { NestedOf(sm, d) : d \in from }, n - 1)
ReachableFrom(sm, c) == ReachIn(sm, NestedOf(sm, c), Cardinality(Classes))
Acyclic(sm, c) ==
  \A d \in {c} \cup ReachableFrom(sm, c) : d \notin ReachableFrom(sm, d)

\* The description as a mapping from local names, nested descriptions included.
RECURSIVE DescOf(_)
DescOf(ret) ==
  [k \in {ret[i].key : i \in 1..Len(ret)} |->
     LET e == Get(ret, k)
     IN [name |-> e.name, type |-> e.type, isSchema |-> e.meta.isSchema,
         opts |-> e.meta.opts,
         schema |-> IF e.meta.isSchema THEN DescOf(e.meta.schema) ELSE EmptyDesc]]

\* The description the claim prescribes for class c.
RECURSIVE ExpectedSchema(_, _)
ExpectedSchema(sm, c) ==
  LET reg == Contents(MetaOf(sm, c).entries)
  IN [k \in DOMAIN reg |->
        LET nested == reg[k].opts \in Classes /\ MetaOf(sm, reg[k].opts).has
        IN [name |-> reg[k].remoteName, type |-> reg[k].type, isSchema |-> nested,
            opts |-> IF nested THEN Undefined ELSE reg[k].opts,
            schema |-> IF nested THEN ExpectedSchema(sm, reg[k].opts) ELSE EmptyDesc]]

\* C6: extractMetaData never enters a class that it is already extracting, and
\* never exhausts the call stack: reference cycles are detected and broken.
C6_CyclesAreBroken ==
  /\ exStatus # "RangeError"
  /\ \A i \in 1..Len(exStack), j \in 1..Len(exStack) :
       i # j => exStack[i].cls # exStack[j].cls

\* C7: for a schema class with an acyclic nested-class graph, the description
\* returned has exactly the local names of the registry as keys, each entry
\* holding the remote name, the shape kind, and either the description of the
\* nested schema class or the options payload unchanged.
C7_ExtractedSchema ==
  (exStatus # "idle" /\ MetaOf(staticDataMeta, exTarget).has
     /\ Acyclic(staticDataMeta, exTarget)) =>
       /\ exStatus \in {"running", "done"}
       /\ exStatus = "done" =>
            DescOf(exResult) = ExpectedSchema(staticDataMeta, exTarget)

\* C7 witness: extractMetaData(Item) has returned the description of the
\* Item / Tag scenario.
C7_Witness ==
  /\ exStatus = "done" /\ exTarget = "Item" /\ staticDataMeta = ItemTagSchema
  /\ DescOf(exResult) =
       [id |-> [name |-> "ID", type |-> Scalar, isSchema |-> FALSE,
                opts |-> Undefined, schema |-> EmptyDesc],
        tags |-> [name |-> "Tags", type |-> Array, isSchema |-> TRUE,
                  opts |-> Undefined,
                  schema |-> [label |-> [name |-> "Label", type |-> Scalar,
                                         isSchema |-> FALSE, opts |-> Undefined,
                                         schema |-> EmptyDesc]]]]

(***************************************************************************)
(* Raw (untyped) values.                                                   *)
(***************************************************************************)
Undef == [t |-> "undef"]
Null == [t |-> "null"]
Num(n) == [t |-> "num", n |-> n]
Str(cs) == [t |-> "str", chars |-> cs]      \* a string, as its characters
Lst(s) == [t |-> "seq", s |-> s]            \* an array
Map(m) == [t |-> "map", m |-> m]            \* a plain object

\* data[key]: a property read throws on undefined and null, and finds none of
\* the field names on a number, a string or an array.
PropRead(data, key) ==
  IF data.t \in {"undef", "null"} THEN [threw |-> TRUE, val |-> Undef]
  ELSE IF data.t = "map"
       THEN [threw |-> FALSE,
             val |-> IF key \in DOMAIN data.m THEN data.m[key] ELSE Undef]
       ELSE [threw |-> FALSE, val |-> Undef]

\* for (const arrayVal of val).  An ES2015 build asks val for its iterator and
\* throws when there is none; an ES5 build compiles the loop to an index loop
\* up to val.length, which throws on undefined and null only.
Iterate(val) ==
  CASE val.t = "seq" -> [threw |-> FALSE, elems |-> val.s]
    [] val.t = "str" ->
         [threw |-> FALSE, elems |-> [i \in 1..Len(val.chars) |-> Str(<<val.chars[i]>>)]]
    [] val.t \in {"undef", "null"} -> [threw |-> TRUE, elems |-> <<>>]
    [] val.t \in {"num", "map"} -> [threw |-> build = "ES2015", elems |-> <<>>]

(***************************************************************************)
(* The heap: instances, promises, suspended parseAttribute calls and the   *)
(* validations started.                                                    *)
(***************************************************************************)
Pending == [state |-> "pending", kind |-> "none", raw |-> Undef, inst |-> 0,
            arr |-> <<>>, err |-> ""]
FulfilledRaw(val) == [Pending EXCEPT !.state = "fulfilled", !.kind = "raw", !.raw = val]
FulfilledInst(id) == [Pending EXCEPT !.state = "fulfilled", !.kind = "inst", !.inst = id]
FulfilledArr(ids) == [Pending EXCEPT !.state = "fulfilled", !.kind = "arr", !.arr = ids]
Rejected(err) == [Pending EXCEPT !.state = "rejected", !.kind = "err", !.err = err]
Settle(h, p, outcome) == [h EXCEPT !.proms[p] = outcome]

\* What an instance slot holds: a promise, or a raw value.
PromiseSlot(p) == [isPromise |-> TRUE, p |-> p, raw |-> Undef]
RawSlot(val) == [isPromise |-> FALSE, p |-> 0, raw |-> val]

Thrown(h, err) == [h |-> h, threw |-> TRUE, err |-> err, inst |-> 0]
Returned(h, id) == [h |-> h, threw |-> FALSE, err |-> "", inst |-> id]

\* Object.keys(meta)
ObjectKeys(meta) ==
  IF meta.has THEN [threw |-> FALSE, keys |-> KeysOf(meta.entries)]
  ELSE [threw |-> TRUE, keys |-> <<>>]

RECURSIVE walk(_, _, _), WalkKeys(_, _, _, _, _), parseAttribute(_, _, _),
          ArrayLoop(_, _, _, _, _), ChildStep(_, _, _, _, _, _, _)

\* walk(data, Target), up to its return or throw.
walk(h, data, Target) ==
  IF Target \notin Classes THEN Thrown(h, "TypeError")          \* new Target()
  ELSE LET h1 == [h EXCEPT !.insts = Append(@, [cls |-> Target, slots |-> <<>>])]
           instance == Len(h1.insts)
           meta == MetaOf(staticDataMeta, Target)
           keys == ObjectKeys(meta)
       IN IF keys.threw THEN Thrown(h1, "TypeError")
          ELSE IF ~meta.has THEN Thrown(h1, "Missing metadata!")
          ELSE WalkKeys(h1, instance, data, meta.entries, 1)

\* for (const key of keys) { instance[key] = parseAttribute(data[key], meta[key]) }
WalkKeys(h, instance, data, entries, i) ==
  IF i > Len(entries) THEN Returned(h, instance)
  ELSE LET key == entries[i].key
           val == PropRead(data, key)
       IN IF val.threw THEN Thrown(h, "TypeError")
          ELSE LET pa == parseAttribute(h, val.val, entries[i].val)
                   h2 == [pa.h EXCEPT !.insts[instance].slots =
                                         Put(@, key, PromiseSlot(pa.p))]
               IN WalkKeys(h2, instance, data, entries, i + 1)

\* parseAttribute(val, keyMeta), an async function: the call returns a promise
\* at once, its body having run up to the first await.
parseAttribute(h, val, keyMeta) ==
  LET p == Len(h.proms) + 1
      h0 == [h EXCEPT !.proms = Append(@, Pending)]
  IN CASE keyMeta.type = Scalar ->
            [h |-> Settle(h0, p, FulfilledRaw(val)), p |-> p]
       [] keyMeta.type = Array ->
            LET it == Iterate(val)
            IN IF it.threw THEN [h |-> Settle(h0, p, Rejected("TypeError")), p |-> p]
               ELSE [h |-> ArrayLoop(h0, p, keyMeta.opts, it.elems, <<>>), p |-> p]
       [] keyMeta.type = Object ->
            [h |-> ChildStep(h0, p, Object, keyMeta.opts, val, <<>>, <<>>), p |-> p]

\* The array loop, from the element after those already pushed.
ArrayLoop(h, p, cls, elems, acc) ==
  IF elems = <<>> THEN Settle(h, p, FulfilledArr(acc))
  ELSE ChildStep(h, p, Array, cls, Head(elems), Tail(elems), acc)

\* const childInstance = walk(val, opts); await validator.validate(childInstance)
\* : the nested walk runs, validation starts and the call is suspended.
ChildStep(h, p, type, cls, val, rest, acc) ==
  LET w == walk(h, val, cls)
  IN IF w.threw THEN Settle(w.h, p, Rejected(w.err))
     ELSE [w.h EXCEPT
             !.valids = Append(@, [inst |-> w.inst, status |-> "pending", type |-> type,
                                   p |-> p, idx |-> Len(acc) + 1]),
             !.tasks = Append(@, [p |-> p, type |-> type, cls |-> cls, rest |-> rest,
                                  acc |-> acc, child |-> w.inst,
                                  v |-> Len(w.h.valids) + 1])]

RemoveAt(seq, i) == SubSeq(seq, 1, i - 1) \o SubSeq(seq, i + 1, Len(seq))

\* The continuation of a suspended parseAttribute call once the promise of
\* validator.validate has resolved; the list of errors it resolves with is
\* dropped.
Resumed(h, ti) ==
  LET task == h.tasks[ti]
      h1 == [h EXCEPT !.tasks = RemoveAt(@, ti)]
  IN IF task.type = Array
     THEN ArrayLoop(h1, task.p, task.cls, task.rest, Append(task.acc, task.child))
     ELSE Settle(h1, task.p, FulfilledInst(task.child))

(***************************************************************************)
(* Specification SpecWalk: one call of walk and what follows it.           *)
(***************************************************************************)
CallWalk ==
  /\ walkResult.status = "none"
  /\ LET w == walk(heap, walkData, walkTarget)
     IN /\ heap' = w.h
        /\ walkResult' = IF w.threw
                         THEN [status |-> "threw", inst |-> 0, err |-> w.err]
                         ELSE [status |-> "returned", inst |-> w.inst, err |-> ""]
  /\ UNCHANGED <<build, walkData, walkTarget, regVars, exVars, modVars>>

\* class-validator finishes validating an instance: its promise resolves with
\* the list of constraint violations, empty or not.
ValidateDone(v, status) ==
  /\ heap.valids[v].status = "pending"
  /\ heap' = [heap EXCEPT !.valids[v].status = status]
  /\ UNCHANGED <<build, walkData, walkTarget, walkResult, regVars, exVars, modVars>>

Resume(ti) ==
  /\ heap.valids[heap.tasks[ti].v].status # "pending"
  /\ heap' = Resumed(heap, ti)
  /\ UNCHANGED <<build, walkData, walkTarget, walkResult, regVars, exVars, modVars>>

MaxArray == 3   \* longest raw array handed to walk

\* class Tag { label: string }
\* class Item { id: number; tags: Tag[]; main: Tag }
WalkSchema ==
  Decorated([c \in Classes |-> NoMeta],
            << <<"Tag", <<"label", "Label", Undefined>> >>,
               <<"Item", <<"id", "ID", Undefined>> >>,
               <<"Item", <<"tags", "Tags", "Tag">> >>,
               <<"Item", <<"main", "Main", "Tag">> >> >>)

Absent == [t |-> "absent"]
MapOf(f) == Map([k \in {x \in DOMAIN f : f[x] # Absent} |-> f[k]])
RECURSIVE SeqsUpTo(_, _)
SeqsUpTo(S, n) ==
  IF n = 0 THEN {<<>>}
  ELSE LET prev == SeqsUpTo(S, n - 1)
       IN prev \cup {Append(q, x) : q \in prev, x \in S}

RawScalars == {Num(42), Str(<<"x">>)}
RawTags == {MapOf([label |-> Str(<<"r">>)]), MapOf([label |-> Absent])}
RawItems ==
  { MapOf([id |-> i, tags |-> ts, main |-> mn]) :
      i \in RawScalars \cup {Absent},
      ts \in {Absent, Num(5), Str(<<"a", "b">>)} \cup {Lst(q) : q \in SeqsUpTo(RawTags, MaxArray)},
      mn \in RawTags \cup {Absent, Num(5)} }
RawInputs == RawItems \cup RawScalars \cup {Undef}

WalkInit ==
  /\ staticDataMeta = WalkSchema
  /\ log = <<>>
  /\ build \in {"ES5", "ES2015"}
  /\ walkData \in RawInputs
  /\ walkTarget \in {"Item", "Tag", "Plain"}
  /\ heap = EmptyHeap
  /\ walkResult = NoResult
  /\ IdleEx /\ IdleMod

WalkNext ==
  \/ CallWalk
  \/ \E v \in 1..Len(heap.valids), status \in {"ok", "errors"} : ValidateDone(v, status)
  \/ \E ti \in 1..Len(heap.tasks) : Resume(ti)

SpecWalk == WalkInit /\ [][WalkNext]_vars

(***************************************************************************)
(* Claims about walk, checked under SpecWalk.                              *)
(***************************************************************************)
WalkDone == walkResult.status # "none"
WalkReturned == walkResult.status = "returned"
TargetMeta == MetaOf(staticDataMeta, walkTarget)
FieldsOfKind(type) ==
  { TargetMeta.entries[i].key :
      i \in { j \in 1..Len(TargetMeta.entries) : TargetMeta.entries[j].val.type = type } }
Slot(instance, key) == Get(heap.insts[instance].slots, key)

\* C1: once walk has handed an instance to its caller, every validation of a
\* nested Object-kind instance or Array-kind element has finished without
\* violations, and none is started afterwards.
C1_ReturnedMeansValidated ==
  WalkReturned =>
    /\ \A v \in 1..Len(heap.valids) : heap.valids[v].status = "ok"
    /\ heap.tasks = <<>>

\* C2: the elements of an Array-kind field are validated one at a time in
\* source order, and once the validation of an element has reported
\* violations walk has failed with ValidationError and no later element of
\* that array is validated.
C2_ArrayFailFast ==
  \A a \in 1..Len(heap.valids) :
    LET va == heap.valids[a]
        later == { b \in 1..Len(heap.valids) :
                     heap.valids[b].p = va.p /\ heap.valids[b].idx > va.idx }
    IN va.type = Array =>
         /\ \A b \in later : a < b /\ va.status # "pending"
         /\ va.status = "errors" =>
              /\ walkResult = [status |-> "threw", inst |-> 0, err |-> "ValidationError"]
              /\ later = {}

\* C3: the instance returned by walk holds, in the slot of every Scalar-kind
\* field, the raw value found under that name in the raw tree.
C3_ScalarPassthrough ==
  WalkReturned =>
    \A f \in FieldsOfKind(Scalar) :
      Slot(walkResult.inst, f) = RawSlot(PropRead(walkData, f).val)

\* C4: walk on a class without a registry fails with the error whose message
\* is 'Missing metadata!'.
C4_MissingMetadata ==
  (WalkDone /\ ~TargetMeta.has) =>
    walkResult = [status |-> "threw", inst |-> 0, err |-> "Missing metadata!"]

\* C9: when the raw value at an Array-kind field is not iterable, or the raw
\* value at an Object-kind field is no mapping, the caller of walk observes a
\* failure, not an instance.
ShapeMismatch ==
  /\ walkData.t = "map"
  /\ \/ \E f \in FieldsOfKind(Array) : PropRead(walkData, f).val.t \notin {"seq", "str"}
     \/ \E f \in FieldsOfKind(Object) : PropRead(walkData, f).val.t # "map"
C9_ShapeMismatchFails ==
  (WalkDone /\ TargetMeta.has /\ ShapeMismatch) => walkResult.status = "threw"

(***************************************************************************)
(* AbstractStaticDataModule.                                               *)
(***************************************************************************)
\* A string holding the JSON serialisation of lit.
Text(lit) == [t |-> "text", lit |-> lit]

\* JSON.parse(json): the argument is converted to a string first, so a number
\* and null parse to themselves, while undefined, an object ("[object Object]"),
\* an array of objects and the plain strings of the model never parse.
JSONParse(json) ==
  CASE json.t = "text" -> [threw |-> FALSE, val |-> json.lit]
    [] json.t \in {"num", "null"} -> [threw |-> FALSE, val |-> json]
    [] OTHER -> [threw |-> TRUE, val |-> Undef]

\* JSON.stringify of an instance: a promise serialises as {}.
InstanceJSON(h, id) ==
  LET slots == h.insts[id].slots
  IN Map([k \in {slots[i].key : i \in 1..Len(slots)} |-> Map(EmptyDesc)])

Truthy(val) ==
  CASE val.t \in {"undef", "null"} -> FALSE
    [] val.t = "num" -> val.n # 0
    [] val.t = "str" -> val.chars # <<>>
    [] OTHER -> TRUE

\* stringify(data): JSON.stringify(data || this.staticData)
stringify(h, data, current) ==
  IF Truthy(data) THEN Text(data) ELSE Text(InstanceJSON(h, current))

\* zlib.deflate, zlib.inflate
Deflate(data) == [t |-> "deflated", of |-> data]
Inflate(bytes) ==
  IF bytes.t = "deflated" THEN [threw |-> FALSE, val |-> bytes.of]
  ELSE [threw |-> TRUE, val |-> Undef]
NoFile == [t |-> "nofile"]
Garbage == [t |-> "garbage"]

\* loadDump(): fs.readFile, then zlib.inflate, then data.toString()
loadDump(ioOk) ==
  IF dumpFile = NoFile \/ ~ioOk THEN [threw |-> TRUE, val |-> Undef]
  ELSE Inflate(dumpFile)

\* parse(json): walk(JSON.parse(json), this.StaticDataClass)
parse(h, json) ==
  LET data == JSONParse(json)
  IN IF data.threw THEN Thrown(h, "SyntaxError")
     ELSE walk(h, data.val, StaticDataClass)

\* setup(state, callback)
setup(ioOk) ==
  /\ modPc = "init"
  /\ LET data == loadDump(ioOk)
         parsed == parse(heap, data.val)
         fresh == [heap EXCEPT !.insts = Append(@, [cls |-> StaticDataClass, slots |-> <<>>])]
     IN IF data.threw
        THEN /\ heap' = fresh
             /\ staticData' = Len(fresh.insts)
        ELSE IF parsed.threw
        THEN /\ heap' = [parsed.h EXCEPT
                           !.insts = Append(@, [cls |-> StaticDataClass, slots |-> <<>>])]
             /\ staticData' = Len(heap'.insts)
        ELSE /\ heap' = parsed.h
             /\ staticData' = parsed.inst
  /\ modPc' = "idle"
  /\ modOutcome' = [modOutcome EXCEPT !.last = "setup", !.before = 0]
  /\ UNCHANGED <<StaticDataClass, dumpFile, modData, build, walkData, walkTarget,
                 walkResult, regVars, exVars>>

\* A slip of import: the instance under construction is committed to
\* staticData before validate has settled.
ImportValidateCommitting(data) ==
  /\ modPc = "idle"
  /\ modOutcome.imports < MaxImports
  /\ modData' = data
  /\ LET parsed == parse(heap, data)
     IN /\ heap' = parsed.h
        /\ staticData' = IF Len(parsed.h.insts) > Len(heap.insts)
                         THEN Len(heap.insts) + 1 ELSE staticData
        /\ modPc' = IF parsed.threw THEN "idle" ELSE "validated"
        /\ modOutcome' = [last |-> IF parsed.threw THEN parsed.err ELSE "pending",
                          before |-> staticData, imports |-> modOutcome.imports + 1]
  /\ UNCHANGED <<StaticDataClass, dumpFile, build, walkData, walkTarget,
                 walkResult, regVars, exVars>>

\* import(state, data), up to the end of await this.validate(state, data):
\* validate runs this.parse(data), and import rejects with what parse throws.
ImportValidate(data) ==
  /\ modPc = "idle"
  /\ modOutcome.imports < MaxImports
  /\ modData' = data
  /\ LET parsed == parse(heap, data)
     IN /\ heap' = parsed.h
        /\ modPc' = IF parsed.threw THEN "idle" ELSE "validated"
        /\ modOutcome' = [last |-> IF parsed.threw THEN parsed.err ELSE "pending",
                          before |-> staticData, imports |-> modOutcome.imports + 1]
  /\ UNCHANGED <<StaticDataClass, staticData, dumpFile, build, walkData, walkTarget,
                 walkResult, regVars, exVars>>

\* import, await this.store(state, this.stringify(data)): dump deflates the
\* string and writes the file.
ImportStore(ioOk) ==
  /\ modPc = "validated"
  /\ IF ioOk
     THEN /\ dumpFile' = Deflate(stringify(heap, modData, staticData))
          /\ modPc' = "stored"
          /\ UNCHANGED modOutcome
     ELSE /\ modPc' = "idle"
          /\ modOutcome' = [modOutcome EXCEPT !.last = "IOError"]
          /\ UNCHANGED dumpFile
  /\ UNCHANGED <<StaticDataClass, staticData, modData, walkVars, regVars, exVars>>

\* import, await this.load(state): the string read back is dropped.
ImportLoad(ioOk) ==
  /\ modPc = "stored"
  /\ modPc' = "idle"
  /\ modOutcome' = [modOutcome EXCEPT
                      !.last = IF loadDump(ioOk).threw THEN "IOError" ELSE "resolved"]
  /\ UNCHANGED <<StaticDataClass, staticData, dumpFile, modData, walkVars, regVars, exVars>>

\* The imported trees and the dump files the module starts from.
FullItem ==
  MapOf([id |-> Num(42), tags |-> Lst(<<MapOf([label |-> Str(<<"r">>)])>>), main |-> Absent])
ImportInputs ==
  {Text(FullItem), Text(Null), Text(MapOf([id |-> Absent])), FullItem, Num(0), Num(42)}
DumpFiles == {NoFile, Garbage, Deflate(Text(FullItem)), Deflate(Text(Null))}

ModuleInit ==
  /\ staticDataMeta = WalkSchema
  /\ log = <<>>
  /\ build \in {"ES5", "ES2015"}
  /\ walkData = Undef /\ walkTarget = Undefined /\ walkResult = NoResult
  /\ heap = EmptyHeap
  /\ StaticDataClass \in {"Item", "Plain"}
  /\ staticData = 0
  /\ dumpFile \in DumpFiles
  /\ modPc = "init"
  /\ modData = Undef
  /\ modOutcome = NoOutcome
  /\ IdleEx

ModuleNext ==
  \/ \E ioOk \in BOOLEAN : setup(ioOk)
  \/ \E data \in ImportInputs : ImportValidate(data)
  \/ \E ioOk \in BOOLEAN : ImportStore(ioOk)
  \/ \E ioOk \in BOOLEAN : ImportLoad(ioOk)
  \/ \E v \in 1..Len(heap.valids), status \in {"ok", "errors"} : ValidateDone(v, status)
  \/ \E ti \in 1..Len(heap.tasks) : Resume(ti)

SpecModule == ModuleInit /\ [][ModuleNext]_vars

(***************************************************************************)
(* Claims about the module, checked under SpecModule.                      *)
(***************************************************************************)
\* C5: when an import has ended because walk threw (the TypeError walk raises;
\* JSON.parse raises SyntaxError before walk is entered), staticData is the
\* instance it was when that import began.
C5_FailedImportKeepsStaticData ==
  (modPc = "idle" /\ modOutcome.last = "TypeError") =>
     staticData = modOutcome.before

\* C5 witness: after setup, an import has failed in walk, leaving behind the
\* instance walk had begun to build, and staticData is still the set-up one.
C5_Witness ==
  /\ modPc = "idle" /\ modOutcome.last = "TypeError"
  /\ staticData # 0 /\ staticData = modOutcome.before
  /\ Len(heap.insts) > staticData

====
